---- MODULE Spec2Model ----
(***************************************************************************)
(* VikRenamer: batch file renamer (cli_tool.py, renamer_gui.py).           *)
(*                                                                         *)
(* A file name is a sequence of one-character strings, so that pathlib's   *)
(* stem/suffix split, str.format, str.zfill and re.sub are computed on     *)
(* characters the way the code computes them.  The working directory is a  *)
(* function from the names of its entries to their content: a positive     *)
(* number identifies the content of a regular file, DirEntry marks a       *)
(* sub-directory.                                                          *)
(***************************************************************************)
EXTENDS Integers, Sequences, FiniteSets, Bags, TLC

(***************************************************************************)
(* Bounds of the model                                                     *)
(***************************************************************************)
\* largest number of entries in the working directory at start
MaxFiles == 2
\* largest --start-number / "Numero iniziale" tried
MaxStart == 2
\* number of interface-thread actions (clicks) of one GUI session; no more
\* workers than clicks can be started
MaxUiActions == 4

(***************************************************************************)
(* Characters and strings                                                  *)
(***************************************************************************)
DirEntry == 0

None == <<"<None>">>

NoCase == "None"

DigitChar == <<"0", "1", "2", "3", "4", "5", "6", "7", "8", "9">>

RECURSIVE Digits(_)
\* str(n) for n >= 0
Digits(n) == IF n < 10 THEN <<DigitChar[n + 1]>>
             ELSE Digits(n \div 10) \o <<DigitChar[(n % 10) + 1]>>

RECURSIVE PadLeft(_, _)
PadLeft(s, w) == IF Len(s) >= w THEN s ELSE PadLeft(<<"0">> \o s, w)

\* f"{number:03d}": minimum width 3, the sign counts in the width
Format03d(n) == IF n < 0 THEN <<"-">> \o PadLeft(Digits(0 - n), 2)
                ELSE PadLeft(Digits(n), 3)

\* str(i).zfill(3)
ZFill3(n) == IF n < 0 THEN <<"-">> \o PadLeft(Digits(0 - n), 2)
             ELSE PadLeft(Digits(n), 3)

\* name.rfind('.'), 1-based, 0 when there is no dot
LastDot(name) ==
    LET dots == {i \in 1..Len(name) : name[i] = "."}
    IN  IF dots = {} THEN 0 ELSE CHOOSE i \in dots : \A j \in dots : j <= i

\* PurePath.suffix: the last dot and what follows it, unless the dot is the
\* first or the last character of the name
Suffix(name) ==
    LET i == LastDot(name)
    IN  IF i > 1 /\ i < Len(name) THEN SubSeq(name, i, Len(name)) ELSE <<>>

\* PurePath.stem
Stem(name) ==
    LET i == LastDot(name)
    IN  IF i > 1 /\ i < Len(name) THEN SubSeq(name, 1, i - 1) ELSE name

Lowers == <<"a", "b", "c", "d", "e", "i", "n", "o", "s", "t", "x", "y">>

Uppers == <<"A", "B", "C", "D", "E", "I", "N", "O", "S", "T", "X", "Y">>

IndexIn(c, s) == IF \E i \in 1..Len(s) : s[i] = c
                 THEN CHOOSE i \in 1..Len(s) : s[i] = c ELSE 0

IsLowerChar(c) == IndexIn(c, Lowers) > 0

IsUpperChar(c) == IndexIn(c, Uppers) > 0

IsCased(c) == IsLowerChar(c) \/ IsUpperChar(c)

LowerChar(c) == IF IsUpperChar(c) THEN Lowers[IndexIn(c, Uppers)] ELSE c

UpperChar(c) == IF IsLowerChar(c) THEN Uppers[IndexIn(c, Lowers)] ELSE c

\* str.lower
StrLower(s) == [i \in 1..Len(s) |-> LowerChar(s[i])]

\* str.upper
StrUpper(s) == [i \in 1..Len(s) |-> UpperChar(s[i])]

\* str.title: a cased character is upper-cased when the character before it
\* is not cased (or it is the first), lower-cased otherwise
StrTitle(s) ==
    [i \in 1..Len(s) |->
        IF i = 1 \/ ~IsCased(s[i - 1]) THEN UpperChar(s[i]) ELSE LowerChar(s[i])]

\* str.capitalize: first character upper-cased, ALL the others lower-cased
StrCapitalize(s) ==
    [i \in 1..Len(s) |-> IF i = 1 THEN UpperChar(s[i]) ELSE LowerChar(s[i])]

IsSep(c) == c \in {"_", "-", " "}

RECURSIVE SplitFrom(_, _, _, _)
\* re.split(r'[_\-\s]+', s): cur is the segment being read, inSep tells that
\* the previous character was a separator (a run of separators splits once)
SplitFrom(s, i, cur, inSep) ==
    IF i > Len(s) THEN <<cur>>
    ELSE IF IsSep(s[i])
         THEN IF inSep THEN SplitFrom(s, i + 1, cur, TRUE)
              ELSE <<cur>> \o SplitFrom(s, i + 1, <<>>, TRUE)
         ELSE SplitFrom(s, i + 1, Append(cur, s[i]), FALSE)

ReSplit(s) == SplitFrom(s, 1, <<>>, FALSE)

RECURSIVE ConcatAll(_)
\* ''.join(parts)
ConcatAll(parts) == IF parts = <<>> THEN <<>>
                    ELSE Head(parts) \o ConcatAll(Tail(parts))

\* a faulty transform: the first segment is left as it is
CamelCaseFirstKept(s) ==
    LET words == ReSplit(s)
    IN  words[1] \o
        ConcatAll([j \in 1..(Len(words) - 1) |-> StrCapitalize(words[j + 1])])

\* words[0].lower() + ''.join(word.capitalize() for word in words[1:])
CamelCase(s) ==
    LET words == ReSplit(s)
    IN  StrLower(words[1]) \o
        ConcatAll([j \in 1..(Len(words) - 1) |-> StrCapitalize(words[j + 1])])

(***************************************************************************)
(* Naming strategies (FileRenamer).  A strategy returns                    *)
(* [ok |-> TRUE, names |-> <<...>>] or [ok |-> FALSE, exc |-> type].       *)
(***************************************************************************)
Ok(names) == [ok |-> TRUE, names |-> names]

Raise(exc) == [ok |-> FALSE, exc |-> exc]

\* a faulty numbering: the position is counted from 1
rename_sequential_from_one(files, base_name, start_num) ==
    Ok([i \in 1..Len(files) |->
          base_name \o <<"_">> \o Format03d(start_num + i) \o Suffix(files[i])])

\* new_name = f"{base_name}_{number:03d}{extension}", number = start_num + i
\* for i counted from 0
rename_sequential(files, base_name, start_num) ==
    Ok([i \in 1..Len(files) |->
          base_name \o <<"_">> \o Format03d(start_num + (i - 1)) \o Suffix(files[i])])

\* the body of the loop of rename_case_transform
CaseName(name, transform) ==
    LET stem == Stem(name)
        new_name == CASE transform = "lower" -> StrLower(stem)
                      [] transform = "upper" -> StrUpper(stem)
                      [] transform = "title" -> StrTitle(stem)
                      [] transform = "camel" -> CamelCase(stem)
                      [] OTHER -> stem
    IN  new_name \o Suffix(name)

\* a faulty loop: the list is gone through from its end
rename_case_transform_reversed(files, transform) ==
    Ok([i \in 1..Len(files) |-> CaseName(files[Len(files) + 1 - i], transform)])

\* one name per file, in the order of the list
rename_case_transform(files, transform) ==
    Ok([i \in 1..Len(files) |-> CaseName(files[i], transform)])

\* re.compile(pattern) for the patterns of the model: literal characters,
\* and "(" which opens a group that is never closed
ReCompiles(pattern) == \A i \in 1..Len(pattern) : pattern[i] # "("

MatchAt(pattern, s, i) ==
    /\ i + Len(pattern) - 1 <= Len(s)
    /\ \A j \in 1..Len(pattern) : s[i + j - 1] = pattern[j]

RECURSIVE SubFrom(_, _, _, _)
\* compiled_pattern.sub(replacement, s) from position i on, for a literal,
\* non-empty pattern: every non-overlapping match, leftmost first
SubFrom(pattern, replacement, s, i) ==
    IF i > Len(s) THEN <<>>
    ELSE IF MatchAt(pattern, s, i)
         THEN replacement \o SubFrom(pattern, replacement, s, i + Len(pattern))
         ELSE <<s[i]>> \o SubFrom(pattern, replacement, s, i + 1)

\* an empty pattern matches before every character and at the end
ReSub(pattern, replacement, s) ==
    IF pattern = <<>>
    THEN ConcatAll([i \in 1..Len(s) |-> replacement \o <<s[i]>>]) \o replacement
    ELSE SubFrom(pattern, replacement, s, 1)

apply_regex_replacement(files, pattern, replacement) ==
    IF ~ReCompiles(pattern) THEN Raise("ValueError")
    ELSE Ok([i \in 1..Len(files) |-> ReSub(pattern, replacement, files[i])])

\* _format_size for sizes below 1024 bytes: f"{size_bytes:.1f} B"
FormatSize(size_bytes) == Digits(size_bytes) \o <<".", "0", " ", "B">>

F_name == <<"n", "a", "m", "e">>

F_ext == <<"e", "x", "t">>

F_counter == <<"c", "o", "u", "n", "t", "e", "r">>

F_date == <<"d", "a", "t", "e">>

F_time == <<"t", "i", "m", "e">>

F_size == <<"s", "i", "z", "e">>

FieldNames == {F_name, F_ext, F_counter, F_date, F_time, F_size}

\* position of the first "}" at or after i, 0 when there is none
CloseBrace(t, i) ==
    LET cl == {j \in i..Len(t) : t[j] = "}"}
    IN  IF cl = {} THEN 0 ELSE CHOOSE j \in cl : \A k \in cl : j <= k

RECURSIVE FormatFrom(_, _, _)
\* str.format(**kw) on template t from position i on; kw maps the six
\* keyword names to their values.  "{{" and "}}" are literal braces, a
\* single "}" or an unclosed "{" is a ValueError, "{}" asks for a positional
\* argument (IndexError), an unknown name is a KeyError.
FormatFrom(t, i, kw) ==
    IF i > Len(t) THEN Ok(<<>>)
    ELSE LET more(txt, j) ==
                 LET rest == FormatFrom(t, j, kw)
                 IN  IF rest.ok THEN Ok(txt \o rest.names) ELSE rest
         IN  IF t[i] = "{"
             THEN IF i < Len(t) /\ t[i + 1] = "{" THEN more(<<"{">>, i + 2)
                  ELSE LET j == CloseBrace(t, i + 1)
                       IN  IF j = 0 THEN Raise("ValueError")
                           ELSE LET field == SubSeq(t, i + 1, j - 1)
                                IN  IF field = <<>> THEN Raise("IndexError")
                                    ELSE IF field \in FieldNames
                                    THEN more(kw[field], j + 1)
                                    ELSE Raise("KeyError")
             ELSE IF t[i] = "}"
             THEN IF i < Len(t) /\ t[i + 1] = "}" THEN more(<<"}">>, i + 2)
                  ELSE Raise("ValueError")
             ELSE more(<<t[i]>>, i + 1)

\* strftime('%Y-%m-%d') and strftime('%H-%M-%S') of a clock reading: the
\* reading is a pair <<day, second>>, the stamp one symbol per value
DateStamp(reading) == <<"D">> \o Digits(reading[1])

TimeStamp(reading) == <<"T">> \o Digits(reading[2])

\* the keyword arguments of pattern.format for the i-th file (1-based);
\* dates[i] and times[i] are the two datetime.now() readings of iteration i
FormatArgs(name, i, size, dateReading, timeReading) ==
    [f \in FieldNames |->
        CASE f = F_name -> Stem(name)
          [] f = F_ext -> Suffix(name)
          [] f = F_counter -> ZFill3(i)
          [] f = F_date -> DateStamp(dateReading)
          [] f = F_time -> TimeStamp(timeReading)
          [] OTHER -> FormatSize(size)]

RECURSIVE PatternFrom(_, _, _, _, _, _)
\* the loop of rename_with_pattern from file i on: the first file whose
\* format call raises ends the call with that exception
PatternFrom(files, pattern, sizes, dates, times, i) ==
    IF i > Len(files) THEN Ok(<<>>)
    ELSE LET one == FormatFrom(pattern, 1,
                      FormatArgs(files[i], i, sizes[i], dates[i], times[i]))
         IN  IF ~one.ok THEN one
             ELSE LET rest == PatternFrom(files, pattern, sizes, dates, times, i + 1)
                  IN  IF rest.ok THEN Ok(<<one.names>> \o rest.names) ELSE rest

rename_with_pattern(files, pattern, sizes, dates, times) ==
    PatternFrom(files, pattern, sizes, dates, times, 1)

\* the clock readings one call may see: days and seconds within a day
Readings == {<<1, 1>>, <<1, 2>>, <<2, 0>>}

NotAfter(r1, r2) == r1[1] < r2[1] \/ (r1[1] = r2[1] /\ r1[2] <= r2[2])

\* the 2n successive datetime.now() readings of a call over n files: the
\* clock never goes back, and may advance between any two readings
ClockRuns(n) ==
    {run \in [1..(2 * n) -> Readings] :
        \A i \in 1..(2 * n - 1) : NotAfter(run[i], run[i + 1])}

Field(f) == <<"{">> \o f \o <<"}">>

\* whether template t has the placeholder {f}
HasField(t, f) ==
    \E i \in 1..Len(t) : MatchAt(Field(f), t, i)

\* the clock runs that can tell apart the results of a call with template t:
\* all of them when t reads the clock, one otherwise
ClockRunsFor(t, n) ==
    IF t # None /\ (HasField(t, F_date) \/ HasField(t, F_time)) THEN ClockRuns(n)
    ELSE {[i \in 1..(2 * n) |-> <<1, 1>>]}

DatesOf(run, n) == [i \in 1..n |-> run[2 * i - 1]]

TimesOf(run, n) == [i \in 1..n |-> run[2 * i]]

(***************************************************************************)
(* The file system                                                         *)
(***************************************************************************)
A_TXT == <<"a", ".", "t", "x", "t">>

B_TXT == <<"b", ".", "t", "x", "t">>

DOC_001 == <<"d", "o", "c", "_", "0", "0", "1", ".", "t", "x", "t">>

DOC_002 == <<"d", "o", "c", "_", "0", "0", "2", ".", "t", "x", "t">>

C_DAT == <<"c", ".", "d", "a", "t">>

\* a sub-directory whose name matches *.txt
SUB_TXT == <<"s", ".", "t", "x", "t">>

BACKUP == <<"b", "a", "c", "k", "u", "p">>

FileNames == {A_TXT, B_TXT, DOC_001, DOC_002, C_DAT}

\* what identifies the content of the file first found under each name; it
\* is also its size in bytes
ContentOf(name) == CASE name = A_TXT -> 1
                     [] name = B_TXT -> 2
                     [] name = DOC_001 -> 3
                     [] name = DOC_002 -> 4
                     [] OTHER -> 5

\* the directory whose entries are S: the names of FileNames are regular
\* files, SUB_TXT is a sub-directory
FsOf(S) == [n \in S |-> IF n \in FileNames THEN ContentOf(n) ELSE DirEntry]

InitFs == {FsOf(S) : S \in {T \in SUBSET (FileNames \cup {SUB_TXT}) :
                                Cardinality(T) <= MaxFiles}}

\* Path.is_file
IsFile(f, p) == p \in DOMAIN f /\ f[p] # DirEntry

\* a faulty existence test: no entry of the directory is ever found
PathExistsNowhere(f, p) == p = <<>>

\* Path.exists; an empty name joined to the parent is the parent itself
PathExists(f, p) == p = <<>> \/ p \in DOMAIN f

\* a faulty collision test: the comparison with the file itself is inverted
CollisionInverted(f, original_file, new_name) ==
    PathExists(f, new_name) /\ new_name = original_file

\* "new_path.exists() and new_path != original_file", new_path being
\* original_file.parent / new_name
Collision(f, original_file, new_name) ==
    PathExists(f, new_name) /\ new_name # original_file

\* whether os.rename(src, dst) can succeed: the source is there and the
\* target is not a directory (an existing regular file is replaced)
CanRename(f, src, dst) ==
    /\ src \in DOMAIN f
    /\ dst # <<>>
    /\ dst \in DOMAIN f => (dst = src \/ f[dst] # DirEntry)

\* a faulty rename: the target gets the content and the source stays
RenamedKeepingSource(f, src, dst) ==
    [n \in DOMAIN f \cup {dst} |-> IF n = dst THEN f[src] ELSE f[n]]

\* the directory after os.rename(src, dst)
Renamed(f, src, dst) ==
    IF src = dst THEN f
    ELSE [n \in (DOMAIN f \ {src}) \cup {dst} |-> IF n = dst THEN f[src] ELSE f[n]]

EndsWith(s, t) ==
    /\ Len(t) <= Len(s)
    /\ SubSeq(s, Len(s) - Len(t) + 1, Len(s)) = t

\* glob matching for patterns made of literal characters after at most one
\* leading "*"
GlobMatch(pattern, name) ==
    IF pattern # <<>> /\ pattern[1] = "*" THEN EndsWith(name, Tail(pattern))
    ELSE name = pattern

\* the sequences that list every element of S once
Orderings(S) ==
    {o \in [1..Cardinality(S) -> S] : \A i, j \in 1..Cardinality(S) : o[i] = o[j] => i = j}

\* get_files: the matching entries that are regular files, in one of the
\* orders the directory enumeration may give
get_files(f, pattern) ==
    Orderings({n \in DOMAIN f : GlobMatch(pattern, n) /\ IsFile(f, n)})

\* what directory d holds: f for the working directory; globbing a path
\* that does not exist, or that is a regular file, yields nothing
Listing(d, f) == IF d = "work" THEN f ELSE <<>>

(***************************************************************************)
(* State                                                                   *)
(***************************************************************************)
VARIABLES
    fs,             \* the working directory: entry name -> content
    fs0,            \* the working directory when the program started
    pc,             \* where main() is
    args,           \* the parsed command line
    renamer,        \* the FileRenamer: [exists, dry_run, operations_log]
    files,          \* main's files
    new_names,      \* main's new_names, Unbound until assigned
    k,              \* 1-based position of execute_rename's loop
    success_count,  \* execute_rename's success_count
    success,        \* what execute_rename returned
    confirm,        \* the answer typed at the prompt
    raised,         \* the exception that left the try block, if any
    exit_code,      \* the exit status, Running until the process ends
    printed,        \* the messages printed by main, in order
    log_files,      \* the operation logs written under logs/
    log_request,    \* the log format the run asked for when it came to saving
                    \* the log, "unread" before
    last,           \* what the last loop iteration saw and did
    program,        \* which front end runs: "cli" or "gui"; "call" for a
                    \* caller of FileRenamer.execute_rename, "strategy" for
                    \* a caller of one of the four naming methods
    calls,          \* how many execute_rename calls were begun on the renamer
    backup,         \* the files of the backup sub-directory: name -> content
    gui,            \* the FileRenamerGUI object and its widgets
    workers,        \* the execute_rename_thread threads of the session
    log_text        \* the lines execute_rename_thread wrote to the log widget,
                    \* as a bag: nothing reads the widget back

cliVars == <<pc, args, files, new_names, k, success_count, success, confirm,
             raised, exit_code, printed>>

guiVars == <<backup, gui, workers, log_text>>

vars == <<fs, fs0, pc, args, renamer, files, new_names, k, success_count,
          success, confirm, raised, exit_code, printed, log_files, log_request,
          last,
          program, calls, backup, gui, workers, log_text>>

Running == 0 - 1

Unbound == <<None>>

NoRenamer == [exists |-> FALSE, dry_run |-> FALSE, operations_log |-> <<>>]

NoExc == [type |-> "none", code |-> 0]

NoLast == [kind |-> "none"]

\* the FileRenamerGUI after __init__: no file list, no plan, the Execute
\* button disabled.  previewed_files is the file list the names of new_names
\* were computed from by generate_preview (not a field of the object: kept
\* to tell which list a plan belongs to).  create_rename_options_tab selects
\* the sequential strategy and creates its fields only, so the attribute
\* custom_pattern_var is not there yet; preview_error is the exception named
\* in the error dialog of the last generate_preview, "none" if it had none.
NoGui == [files_to_process |-> <<>>, new_names |-> <<>>, previewed_files |-> <<>>,
          dry_run_var |-> FALSE, backup_var |-> FALSE, execute_button |-> "disabled",
          stats |-> [processed |-> 0, success |-> 0, errors |-> 0],
          rename_type |-> "sequential", has_custom_pattern_var |-> FALSE,
          preview_error |-> "none",
          ui_actions |-> 0]

\* one thread object per possible click on Execute
WorkerIds == 1..MaxUiActions

\* dry_run0 and backup0 are the two options as they were when the thread was
\* started, previewed0 the list its names were computed from
IdleWorker == [pc |-> "idle", files |-> <<>>, names |-> <<>>, i |-> 1,
               total_files |-> 0, success_count |-> 0, error_count |-> 0,
               dry_run0 |-> FALSE, backup0 |-> FALSE, previewed0 |-> <<>>]

\* bool(value) of an optional string argument
Truthy(v) == v # None /\ v # <<>>

(***************************************************************************)
(* Command lines                                                           *)
(***************************************************************************)
\* "{name}_{counter}{ext}"
T_NAME_COUNTER == Field(F_name) \o <<"_">> \o Field(F_counter) \o Field(F_ext)

\* "{foo}"
T_BAD == Field(<<"f", "o", "o">>)

\* "x{ext}"
T_CONST == <<"x">> \o Field(F_ext)

\* "{date}_{time}"
T_STAMP == Field(F_date) \o <<"_">> \o Field(F_time)

DOC == <<"d", "o", "c">>

STAR == <<"*">>

STAR_TXT == <<"*", ".", "t", "x", "t">>

BaseArgs ==
    [directory |-> "work", pattern |-> STAR, recursive |-> FALSE,
     sequential |-> None, custom_pattern |-> None, case |-> NoCase,
     regex |-> None, replacement |-> None, start_number |-> 1,
     dry_run |-> FALSE]

\* --sequential doc, and --sequential "" which argparse accepts as well
SequentialArgs ==
    {[BaseArgs EXCEPT !.sequential = DOC, !.start_number = s] : s \in 1..MaxStart}
    \cup {[BaseArgs EXCEPT !.sequential = <<>>]}

PatternArgs ==
    {[BaseArgs EXCEPT !.custom_pattern = t] : t \in {T_NAME_COUNTER, T_BAD, T_CONST}}

CaseArgs == {[BaseArgs EXCEPT !.case = c] : c \in {"lower", "upper", "title", "camel"}}

\* --regex a --replacement b, an invalid expression, no --replacement, and
\* --replacement "" (delete the matches)
RegexArgs ==
    {[BaseArgs EXCEPT !.regex = p[1], !.replacement = p[2]] :
        p \in {<<(<<"a">>), (<<"b">>)>>, <<(<<"(">>), (<<"b">>)>>,
               <<(<<"a">>), None>>, <<(<<"a">>), (<<>>)>>}}

\* the command lines argparse accepts: one of the four modes.  --save-log
\* is read once, at the end of main, and is drawn there.
ArgSets ==
    {[m EXCEPT !.directory = d, !.pattern = p, !.dry_run = dr] :
        m \in SequentialArgs \cup PatternArgs \cup CaseArgs \cup RegexArgs,
        d \in {"work", "missing", "file"}, p \in {STAR, STAR_TXT}, dr \in BOOLEAN}

\* the values of --save-log
SaveLogChoices == {"None", "json", "csv"}

\* the answers typed at the confirmation prompt
Answers == {<<"Y", "e", "s">>, <<"s">>, <<"n">>, <<"y", " ">>}

\* ['y', 'yes', 'si', 's']
Affirmative == {<<"y">>, <<"y", "e", "s">>, <<"s", "i">>, <<"s">>}

(***************************************************************************)
(* FileRenamer.execute_rename: one iteration of its loop                   *)
(***************************************************************************)
\* the record appended after a rename or a simulated rename
SuccessRecord(original_file, new_name) ==
    [original |-> original_file, new |-> new_name, new_is_path |-> TRUE,
     success |-> TRUE]

\* the record appended by the except branch
FailureRecord(original_file, new_name, message) ==
    [original |-> original_file, new |-> new_name, new_is_path |-> FALSE,
     success |-> FALSE, error |-> message]

\* a faulty log: the new record replaces the list
LoggedAlone(r, rec) == [r EXCEPT !.operations_log = <<rec>>]

\* self.operations_log.append(...)
Logged(r, rec) == [r EXCEPT !.operations_log = Append(@, rec)]

\* a faulty test: the dry_run flag is not looked at
ShouldRenameAlways(r) == TRUE

\* "if not self.dry_run"
ShouldRename(r) == ~r.dry_run

\* the message of the exception original_file.rename(new_path) raises
RenameError(f, original_file, oserr) ==
    IF original_file \notin DOMAIN f THEN "FileNotFoundError" ELSE "OSError"

\* the body of the loop for one pair; oserr tells whether the operating
\* system refuses the rename.  Gives the directory and the renamer after
\* the iteration, what is added to success_count, and which branch ran.
execute_pair(f, r, original_file, new_name, oserr) ==
    IF Collision(f, original_file, new_name)
    THEN [fs |-> f, renamer |-> r, counted |-> 0, kind |-> "collision"]
    ELSE IF ShouldRename(r)
    THEN IF ~oserr /\ CanRename(f, original_file, new_name)
         THEN [fs |-> Renamed(f, original_file, new_name),
               renamer |-> Logged(r, SuccessRecord(original_file, new_name)),
               counted |-> 1, kind |-> "renamed"]
         ELSE [fs |-> f,
               renamer |-> Logged(r, FailureRecord(original_file, new_name,
                                         RenameError(f, original_file, oserr))),
               counted |-> 0, kind |-> "error"]
    ELSE [fs |-> f,
          renamer |-> Logged(r, SuccessRecord(original_file, new_name)),
          counted |-> 1, kind |-> "dry_run"]

\* the for loop goes to the next pair whatever the branch taken: "continue"
\* on a collision, and the except branch inside the loop swallows the error
NextPair(i, kind, n) == i + 1

\* a faulty return value: true as soon as one pair succeeded
ReturnValueSome(count, fileList) == count > 0

\* "return success_count == len(files)"
ReturnValue(count, fileList) == count = Len(fileList)

\* what the iteration on (original_file, new_name) saw and did
Seen(who, kind, failed_at, original_file, new_name, f, bak, r, backup_flag, errors) ==
    [who |-> who, kind |-> kind, failed_at |-> failed_at, original |-> original_file,
     new_name |-> new_name, fs_before |-> f, backup_before |-> bak,
     log_before |-> r.operations_log, dry_run |-> r.dry_run,
     backup_flag |-> backup_flag, errors_before |-> errors]

\* save_operations_log: nothing is written for an empty log
save_operations_log(logs, r, format_type) ==
    IF r.operations_log = <<>> THEN logs
    ELSE Append(logs, [format |-> format_type, entries |-> r.operations_log])

(***************************************************************************)
(* main() of cli_tool.py                                                   *)
(***************************************************************************)
\* a faulty constructor: the directory is not looked at
DirExistsAlways(d) == TRUE

\* "if not self.directory.exists()" negated: Path.exists is true of the
\* working directory and of a path that is a regular file
DirExists(d) == d \in {"work", "file"}

\* a faulty handler: one that catches BaseException, SystemExit included
IsExceptionOrExit(type) == type # "KeyboardInterrupt"

\* the exception classes that "except Exception" catches
IsException(type) == type \notin {"SystemExit", "KeyboardInterrupt"}

\* the exit status when exc leaves the try block: the two handlers exit
\* with 1, SystemExit goes through them with its own code
ExitCodeFor(exc) ==
    IF exc.type = "KeyboardInterrupt" THEN 1
    ELSE IF IsException(exc.type) THEN 1
    ELSE exc.code

\* a faulty test of the answer: everything but "n" and "no" goes on
IsAffirmativeUnlessNo(answer) == StrLower(answer) \notin {<<"n">>, <<"n", "o">>}

\* "confirm.lower() not in ['y', 'yes', 'si', 's']" negated
IsAffirmative(answer) == StrLower(answer) \in Affirmative

\* "if not args.dry_run": the prompt is shown
NeedsConfirm(a) == ~a.dry_run

\* the dispatch on the mode: the first truthy option decides, and new_names
\* stays unbound when none is
ProposeNames(a, fileList, sizes, dates, times) ==
    IF Truthy(a.sequential)
    THEN rename_sequential(fileList, a.sequential, a.start_number)
    ELSE IF Truthy(a.custom_pattern)
    THEN rename_with_pattern(fileList, a.custom_pattern, sizes, dates, times)
    ELSE IF a.case # NoCase
    THEN rename_case_transform(fileList, a.case)
    ELSE IF Truthy(a.regex)
    THEN apply_regex_replacement(fileList, a.regex, a.replacement)
    ELSE Ok(Unbound)

\* an exception leaves the try block (lines 549-555): pr is what main had
\* printed before; the handler that catches it prints and exits
Throw(type, code, pr) ==
    /\ raised' = [type |-> type, code |-> code]
    /\ exit_code' = ExitCodeFor([type |-> type, code |-> code])
    /\ printed' = IF type = "KeyboardInterrupt" THEN Append(pr, "interrupted")
                  ELSE IF IsException(type) THEN Append(pr, "error")
                  ELSE pr
    /\ pc' = "exited"

CliInit ==
    /\ fs \in InitFs
    /\ fs0 = fs
    /\ args \in ArgSets
    /\ pc = "validate"
    /\ renamer = NoRenamer
    /\ files = <<>>
    /\ new_names = Unbound
    /\ k = 1
    /\ success_count = 0
    /\ success = FALSE
    /\ confirm = None
    /\ raised = NoExc
    /\ exit_code = Running
    /\ printed = <<>>
    /\ log_files = <<>>
    /\ log_request = "unread"
    /\ last = NoLast
    /\ program = "cli"
    /\ calls = 0
    /\ backup = <<>>
    /\ gui = NoGui
    /\ workers = [w \in WorkerIds |-> IdleWorker]
    /\ log_text = EmptyBag

\* lines 496-499
Validate ==
    /\ pc = "validate"
    /\ IF Truthy(args.regex) /\ ~Truthy(args.replacement)
       THEN /\ printed' = Append(printed, "regex_requires_replacement")
            /\ exit_code' = 1
            /\ pc' = "exited"
       ELSE /\ pc' = "init"
            /\ UNCHANGED <<printed, exit_code>>
    /\ UNCHANGED <<fs, fs0, args, renamer, files, new_names, k, success_count,
                   success, confirm, raised, log_files, log_request, last>>

\* line 503, FileRenamer.__init__
CreateRenamer ==
    /\ pc = "init"
    /\ IF DirExists(args.directory)
       THEN /\ renamer' = [exists |-> TRUE, dry_run |-> args.dry_run,
                           operations_log |-> <<>>]
            /\ pc' = "get_files"
            /\ UNCHANGED <<raised, exit_code, printed>>
       ELSE /\ Throw("FileNotFoundError", 1, printed)
            /\ UNCHANGED renamer
    /\ UNCHANGED <<fs, fs0, args, files, new_names, k, success_count, success,
                   confirm, log_files, log_request, last>>

\* lines 506-510
GetFiles ==
    /\ pc = "get_files"
    /\ \E found \in get_files(Listing(args.directory, fs), args.pattern) :
          /\ files' = found
          /\ IF found = <<>>
             THEN Throw("SystemExit", 0, Append(printed, "no_files"))
             ELSE /\ pc' = "propose"
                  /\ UNCHANGED <<raised, exit_code, printed>>
    /\ UNCHANGED <<fs, fs0, args, renamer, new_names, k, success_count, success,
                   confirm, log_files, log_request, last>>

\* lines 513-520
Propose ==
    /\ pc = "propose"
    /\ \E run \in ClockRunsFor(args.custom_pattern, Len(files)) :
          LET sizes == [i \in 1..Len(files) |-> fs[files[i]]]
              res == ProposeNames(args, files, sizes,
                                  DatesOf(run, Len(files)), TimesOf(run, Len(files)))
          IN  IF res.ok
              THEN /\ new_names' = res.names
                   /\ pc' = "preview"
                   /\ UNCHANGED <<raised, exit_code, printed>>
              ELSE /\ Throw(res.exc, 1, printed)
                   /\ UNCHANGED new_names
    /\ UNCHANGED <<fs, fs0, args, renamer, files, k, success_count, success,
                   confirm, log_files, log_request, last>>

\* lines 523-526: the preview, then the prompt unless dry_run
Preview ==
    /\ pc = "preview"
    /\ IF new_names = Unbound
       THEN Throw("UnboundLocalError", 1, printed)
       ELSE /\ printed' = Append(printed, "preview")
            /\ pc' = IF NeedsConfirm(args) THEN "confirm" ELSE "execute"
            /\ UNCHANGED <<raised, exit_code>>
    /\ UNCHANGED <<fs, fs0, args, renamer, files, new_names, k, success_count,
                   success, confirm, log_files, log_request, last>>

\* lines 527-535
Confirm ==
    /\ pc = "confirm"
    /\ \/ \E answer \in Answers :
            /\ confirm' = answer
            /\ IF IsAffirmative(answer)
               THEN /\ pc' = "execute"
                    /\ UNCHANGED <<raised, exit_code, printed>>
               ELSE Throw("SystemExit", 0, Append(printed, "cancelled"))
       \/ \* end of input instead of an answer
          /\ Throw("EOFError", 1, printed)
          /\ UNCHANGED confirm
    /\ UNCHANGED <<fs, fs0, args, renamer, files, new_names, k, success_count,
                   success, log_files, log_request, last>>

\* lines 297-334: one pair
CliExecStep ==
    /\ pc = "execute"
    /\ k <= Len(files) /\ k <= Len(new_names)
    /\ \E oserr \in BOOLEAN :
          LET out == execute_pair(fs, renamer, files[k], new_names[k], oserr)
          IN  /\ oserr => out.kind = "error"
              /\ fs' = out.fs
              /\ renamer' = out.renamer
              /\ success_count' = success_count + out.counted
              /\ last' = Seen(0, out.kind, IF out.kind = "error" THEN "rename" ELSE "none",
                            files[k], new_names[k], fs, backup, renamer, FALSE,
                            k - 1 - success_count)
              /\ k' = NextPair(k, out.kind, Len(files))
    /\ UNCHANGED <<fs0, pc, args, files, new_names, success, confirm, raised,
                   exit_code, printed, log_files, log_request>>

\* line 339
CliExecReturn ==
    /\ pc = "execute"
    /\ ~(k <= Len(files) /\ k <= Len(new_names))
    /\ success' = ReturnValue(success_count, files)
    /\ pc' = "report"
    /\ UNCHANGED <<fs, fs0, args, renamer, files, new_names, k, success_count,
                   confirm, raised, exit_code, printed, log_files, log_request, last>>

\* lines 540-547, then main returns
Finish ==
    /\ pc = "report"
    /\ LET pr == Append(printed, IF success THEN "all_renamed" ELSE "check_logs")
       IN  \E save_log \in SaveLogChoices :
             \/ /\ printed' = pr
                /\ log_request' = save_log
                /\ log_files' = IF save_log # "None"
                                THEN save_operations_log(log_files, renamer, save_log)
                                ELSE log_files
                /\ exit_code' = 0
                /\ pc' = "exited"
                /\ UNCHANGED raised
             \/ \* the log file cannot be written
                /\ save_log # "None" /\ renamer.operations_log # <<>>
                /\ Throw("OSError", 1, pr)
                /\ log_request' = save_log
                /\ UNCHANGED log_files
    /\ UNCHANGED <<fs, fs0, args, renamer, files, new_names, k, success_count,
                   success, confirm, last>>

\* a caller that hands execute_rename a plan of its own: any list of
\* distinct regular files of the directory, any names for them
PlanNames == {A_TXT, B_TXT, DOC_001, <<>>}

Plans(f) ==
    {<<fl, nn>> : fl \in UNION {Orderings(S) : S \in SUBSET {n \in DOMAIN f : IsFile(f, n)}},
                  nn \in UNION {[1..n -> PlanNames] : n \in 0..MaxFiles}}

\* the directories such a caller starts from: at most MaxFiles entries, with
\* the names a plan can mention
CallFs == {f \in InitFs : DOMAIN f \subseteq PlanNames}

CallInit ==
    /\ fs \in CallFs
    /\ fs0 = fs
    /\ program = "call"
    /\ \E plan \in Plans(fs) :
          /\ Len(plan[1]) = Len(plan[2])
          /\ files = plan[1]
          /\ new_names = plan[2]
    /\ \E d \in BOOLEAN :
          renamer = [exists |-> TRUE, dry_run |-> d, operations_log |-> <<>>]
    /\ pc = "execute"
    /\ calls = 1
    /\ args = BaseArgs
    /\ k = 1
    /\ success_count = 0
    /\ success = FALSE
    /\ confirm = None
    /\ raised = NoExc
    /\ exit_code = Running
    /\ printed = <<>>
    /\ log_files = <<>>
    /\ log_request = "unread"
    /\ last = NoLast
    /\ backup = <<>>
    /\ gui = NoGui
    /\ workers = [w \in WorkerIds |-> IdleWorker]
    /\ log_text = EmptyBag

TryBlock == {"init", "get_files", "propose", "preview", "confirm", "execute", "report"}

\* Ctrl-C while main is inside its try block
KeyboardInterrupt ==
    /\ pc \in TryBlock
    /\ Throw("KeyboardInterrupt", 1, printed)
    /\ UNCHANGED <<fs, fs0, args, renamer, files, new_names, k, success_count,
                   success, confirm, log_files, log_request, last>>

\* the caller hands the same plan to execute_rename a second time, on the
\* same FileRenamer
CallAgain ==
    /\ pc = "report"
    /\ calls = 1
    /\ calls' = calls + 1
    /\ k' = 1
    /\ success_count' = 0
    /\ pc' = "execute"
    /\ UNCHANGED <<fs, fs0, args, renamer, files, new_names, success, confirm,
                   raised, exit_code, printed, log_files, log_request, last>>

\* a step of the command-line program: the session object is not there
InCli(step) ==
    /\ program = "cli"
    /\ step
    /\ UNCHANGED <<program, calls, guiVars>>

\* a step inside a direct call of execute_rename
InCall(step) ==
    /\ program = "call"
    /\ step
    /\ UNCHANGED <<program, calls, guiVars>>

\* a step of the caller
InCaller(step) ==
    /\ program = "call"
    /\ step
    /\ UNCHANGED <<program, guiVars>>

(***************************************************************************)
(* A naming method of FileRenamer called on its own, on any list of files  *)
(***************************************************************************)
\* "a_bC.txt"
A_BC_TXT == <<"a", "_", "b", "C", ".", "t", "x", "t">>

\* "Da-te x", no extension
DA_TE_X == <<"D", "a", "-", "t", "e", " ", "x">>

\* "x1y.txt"
X1Y_TXT == <<"x", "1", "y", ".", "t", "x", "t">>

\* the files such a list is made of
StrategyFiles == {A_TXT, C_DAT, DOC_001, A_BC_TXT, DA_TE_X, X1Y_TXT}

\* the lists: up to MaxFiles distinct files in any order, the empty list
\* included
StrategyLists ==
    UNION {Orderings(S) : S \in {T \in SUBSET StrategyFiles : Cardinality(T) <= MaxFiles}}

\* the start numbers: around every change of the number of digits
StartNumbers == (0 - 1)..MaxStart \cup {9, 99, 999}

\* the calls: the method and its parameters, files is the list passed
StrategyCalls ==
    {[method |-> "rename_sequential", base_name |-> b, start_num |-> n, files |-> l] :
        b \in {DOC, <<>>}, n \in StartNumbers, l \in StrategyLists}
    \cup {[method |-> "rename_with_pattern", pattern |-> t, files |-> l] :
        t \in {T_NAME_COUNTER, T_CONST, T_BAD, T_STAMP}, l \in StrategyLists}
    \cup {[method |-> "rename_case_transform", transform |-> c, files |-> l] :
        c \in {"lower", "upper", "title", "camel", "none"}, l \in StrategyLists}
    \cup {[method |-> "apply_regex_replacement", pattern |-> r[1], replacement |-> r[2],
           files |-> l] :
        r \in {<<(<<"a">>), (<<"b">>)>>, <<(<<"a">>), (<<>>)>>, <<(<<"(">>), (<<"b">>)>>},
        l \in StrategyLists}

\* what the method called returns for fileList
Apply(c, fileList, sizes, dates, times) ==
    CASE c.method = "rename_sequential" ->
            rename_sequential(fileList, c.base_name, c.start_num)
      [] c.method = "rename_with_pattern" ->
            rename_with_pattern(fileList, c.pattern, sizes, dates, times)
      [] c.method = "rename_case_transform" ->
            rename_case_transform(fileList, c.transform)
      [] OTHER -> apply_regex_replacement(fileList, c.pattern, c.replacement)

\* the sizes of the files of the list
SizesOf(fileList) == [i \in 1..Len(fileList) |-> ContentOf(fileList[i])]

\* the clock runs that can tell apart the results of call c over n files
ClockRunsOf(c, n) ==
    ClockRunsFor(IF c.method = "rename_with_pattern" THEN c.pattern ELSE None, n)

StrategyInit ==
    /\ program = "strategy"
    /\ args \in StrategyCalls
    /\ files = args.files
    /\ fs = [n \in {files[i] : i \in 1..Len(files)} |-> ContentOf(n)]
    /\ fs0 = fs
    /\ pc = "call"
    /\ new_names = Unbound
    /\ renamer = [exists |-> TRUE, dry_run |-> FALSE, operations_log |-> <<>>]
    /\ calls = 0
    /\ k = 1
    /\ success_count = 0
    /\ success = FALSE
    /\ confirm = None
    /\ raised = NoExc
    /\ exit_code = Running
    /\ printed = <<>>
    /\ log_files = <<>>
    /\ log_request = "unread"
    /\ last = NoLast
    /\ backup = <<>>
    /\ gui = NoGui
    /\ workers = [w \in WorkerIds |-> IdleWorker]
    /\ log_text = EmptyBag

\* the method runs and returns its list, or raises
StrategyCall ==
    /\ pc = "call"
    /\ \E run \in ClockRunsOf(args, Len(files)) :
          LET res == Apply(args, files, SizesOf(files), DatesOf(run, Len(files)),
                           TimesOf(run, Len(files)))
          IN  IF res.ok
              THEN /\ new_names' = res.names
                   /\ UNCHANGED raised
              ELSE /\ raised' = [type |-> res.exc, code |-> 1]
                   /\ UNCHANGED new_names
    /\ pc' = "returned"
    /\ UNCHANGED <<fs, fs0, args, renamer, files, k, success_count, success,
                   confirm, exit_code, printed, log_files, log_request, last>>

InStrategy(step) ==
    /\ program = "strategy"
    /\ step
    /\ UNCHANGED <<program, calls, guiVars>>

(***************************************************************************)
(* renamer_gui.py: the session object, the interface-thread handlers and   *)
(* the rename worker threads.  A handler runs to its end as one step; a    *)
(* worker takes one step per pair, and the steps of the workers and of the *)
(* interface thread interleave freely.                                     *)
(***************************************************************************)
RECURSIVE ParseDigits(_, _)
ParseDigits(s, acc) ==
    IF s = <<>> THEN acc
    ELSE ParseDigits(Tail(s), 10 * acc + (IndexIn(Head(s), DigitChar) - 1))

\* int(text) for an unsigned decimal; anything else raises ValueError
ParseInt(s) ==
    IF s # <<>> /\ \A j \in 1..Len(s) : IndexIn(s[j], DigitChar) > 0
    THEN [ok |-> TRUE, value |-> ParseDigits(s, 0)]
    ELSE [ok |-> FALSE, exc |-> "ValueError"]

\* what the fields of the options tab can hold, for each strategy, when
\* "Genera Anteprima" is clicked
GuiOptions ==
    {[rename_type |-> "sequential", base_name |-> DOC, start_number |-> <<"1">>],
     [rename_type |-> "pattern", custom_pattern |-> T_CONST],
     [rename_type |-> "pattern", custom_pattern |-> T_BAD]}

\* lines 531-549: the dispatch of generate_preview on rename_type
GuiProposeNames(o, fileList, sizes, dates, times) ==
    IF o.rename_type = "sequential"
    THEN LET start_num == ParseInt(o.start_number)
         IN  IF start_num.ok
             THEN rename_sequential(fileList, o.base_name, start_num.value)
             ELSE Raise(start_num.exc)
    ELSE IF o.rename_type = "pattern"
    THEN rename_with_pattern(fileList, o.custom_pattern, sizes, dates, times)
    ELSE IF o.rename_type = "case"
    THEN rename_case_transform(fileList, o.case_type)
    ELSE apply_regex_replacement(fileList, o.regex_pattern, o.regex_replace)

Line(level, text, name) == [level |-> level, text |-> text, name |-> name]

\* backup_dir.mkdir(exist_ok=True) succeeds unless "backup" is a regular file
CanMkdir(f) == BACKUP \in DOMAIN f => f[BACKUP] = DirEntry

\* a faulty copy: nothing is written
WithEntryNotWritten(f, name, content) == f

\* directory f after name was created or overwritten with content
WithEntry(f, name, content) ==
    [n \in DOMAIN f \cup {name} |-> IF n = name THEN content ELSE f[n]]

\* lines 610-637: the body of the worker's loop for one pair.  fail names
\* the operation the operating system refuses, if any ("mkdir", "copy",
\* "rename"); the copy also fails where Path has no copy method (Python
\* before 3.14).  backup_flag is backup_var.get().
gui_execute_pair(f, bak, r, backup_flag, original_file, new_name, fail) ==
    LET failed(f1, bak1, at) ==
            [fs |-> f1, backup |-> bak1, ok |-> 0, err |-> 1, kind |-> "error",
             failed_at |-> at, line |-> Line("ERROR", "Errore rinominando", original_file)]
        rename(f1, bak1) ==
            IF fail # "rename" /\ CanRename(f1, original_file, new_name)
            THEN [fs |-> Renamed(f1, original_file, new_name), backup |-> bak1,
                  ok |-> 1, err |-> 0, kind |-> "renamed", failed_at |-> "none",
                  line |-> Line("INFO", "Rinominato", original_file)]
            ELSE failed(f1, bak1, "rename")
    IN  IF Collision(f, original_file, new_name)
        THEN [fs |-> f, backup |-> bak, ok |-> 0, err |-> 1, kind |-> "collision",
              failed_at |-> "none", line |-> Line("WARNING", "Conflitto", new_name)]
        ELSE IF ShouldRename(r)
        THEN IF backup_flag
             THEN IF fail = "mkdir" \/ ~CanMkdir(f) THEN failed(f, bak, "mkdir")
                  ELSE LET f1 == WithEntry(f, BACKUP, DirEntry)
                       IN  IF fail = "copy" \/ original_file \notin DOMAIN f
                           THEN failed(f1, bak, "copy")
                           ELSE rename(f1, WithEntry(bak, original_file, f[original_file]))
             ELSE rename(f, bak)
        ELSE [fs |-> f, backup |-> bak, ok |-> 1, err |-> 0, kind |-> "dry_run",
              failed_at |-> "none", line |-> Line("INFO", "[DRY RUN] Rinomina", original_file)]

\* update_stats(success_count, error_count, total_files)
update_stats(processed, errors, total) ==
    [processed |-> total, success |-> processed - errors, errors |-> errors]

\* the directories the graphical sessions start from
GuiInitFs == {FsOf({A_TXT, DOC_001}), FsOf({B_TXT, C_DAT})}

\* the strategies of the radio buttons that are tried
RenameTypes == {"sequential", "pattern"}

\* load_settings, lines 831-858, at the end of __init__: the variables are
\* set from the settings file; setting rename_type runs no command, so the
\* options frame keeps the fields create_rename_options_tab put there
load_settings(settings) ==
    [NoGui EXCEPT !.dry_run_var = settings.dry_run, !.backup_var = settings.backup,
                  !.rename_type = settings.rename_type]

GuiInit ==
    /\ fs \in GuiInitFs
    /\ fs0 = fs
    /\ program = "gui"
    /\ calls = 0
    /\ backup = <<>>
    /\ \E d, b \in BOOLEAN : \E t \in RenameTypes :
          gui = load_settings([dry_run |-> d, backup |-> b, rename_type |-> t])
    /\ workers = [w \in WorkerIds |-> IdleWorker]
    /\ log_text = EmptyBag
    /\ renamer = NoRenamer
    /\ log_files = <<>>
    /\ log_request = "unread"
    /\ last = NoLast
    /\ pc = "gui"
    /\ args = BaseArgs
    /\ files = <<>>
    /\ new_names = Unbound
    /\ k = 1
    /\ success_count = 0
    /\ success = FALSE
    /\ confirm = None
    /\ raised = NoExc
    /\ exit_code = Running
    /\ printed = <<>>

UiAction == gui.ui_actions < MaxUiActions

Counted(g) == [g EXCEPT !.ui_actions = @ + 1]

\* scan_files, lines 478-519
ScanFiles ==
    /\ UiAction
    /\ \E pattern \in {STAR, STAR_TXT} : \E found \in get_files(fs, pattern) :
          /\ renamer' = [exists |-> TRUE, dry_run |-> TRUE, operations_log |-> <<>>]
          /\ gui' = Counted([gui EXCEPT !.files_to_process = found])
    /\ UNCHANGED <<fs, backup, workers, log_text, log_files, log_request, last>>

\* on_rename_type_change, lines 358-376: a click on a radio button selects
\* the strategy and creates its fields; the attributes created for another
\* strategy stay on the object
OnRenameTypeChange ==
    /\ UiAction
    /\ \E t \in RenameTypes :
          gui' = Counted([gui EXCEPT !.rename_type = t,
                                     !.has_custom_pattern_var = @ \/ t = "pattern"])
    /\ UNCHANGED <<fs, backup, renamer, workers, log_text, log_files, log_request, last>>

\* whether the fields generate_preview reads for the selected strategy are
\* attributes of the object (lines 533-540)
FieldsCreated(g) == g.rename_type = "pattern" => g.has_custom_pattern_var

\* generate_preview, lines 521-574
GeneratePreview ==
    /\ UiAction
    /\ gui.files_to_process # <<>>
    /\ IF ~FieldsCreated(gui)
       THEN gui' = Counted([gui EXCEPT !.preview_error = "AttributeError"])
       ELSE
       \E o \in {x \in GuiOptions : x.rename_type = gui.rename_type} :
       \E run \in ClockRunsFor(IF o.rename_type = "pattern" THEN o.custom_pattern ELSE None,
                               Len(gui.files_to_process)) :
          LET fl == gui.files_to_process
              sizes == [i \in 1..Len(fl) |-> IF fl[i] \in DOMAIN fs THEN fs[fl[i]] ELSE 0]
              res == GuiProposeNames(o, fl, sizes, DatesOf(run, Len(fl)), TimesOf(run, Len(fl)))
          IN  IF res.ok
              THEN gui' = Counted([gui EXCEPT !.new_names = res.names,
                                              !.previewed_files = fl,
                                              !.execute_button = "normal",
                                              !.preview_error = "none"])
              ELSE gui' = Counted([gui EXCEPT !.preview_error = res.exc])
    /\ UNCHANGED <<fs, backup, renamer, workers, log_text, log_files, log_request, last>>

\* clear_preview, lines 665-679
ClearPreview ==
    /\ UiAction
    /\ gui' = Counted([gui EXCEPT !.new_names = <<>>, !.previewed_files = <<>>,
                                   !.execute_button = "disabled"])
    /\ UNCHANGED <<fs, backup, renamer, workers, log_text, log_files, log_request, last>>

\* the two check boxes of the options tab
ToggleDryRun ==
    /\ UiAction
    /\ gui' = Counted([gui EXCEPT !.dry_run_var = ~@])
    /\ UNCHANGED <<fs, backup, renamer, workers, log_text, log_files, log_request, last>>

ToggleBackup ==
    /\ UiAction
    /\ gui' = Counted([gui EXCEPT !.backup_var = ~@])
    /\ UNCHANGED <<fs, backup, renamer, workers, log_text, log_files, log_request, last>>

\* execute_rename, lines 576-595: a click on the enabled Execute button
ExecuteRename ==
    /\ UiAction
    /\ gui.execute_button = "normal"
    /\ gui' = Counted(gui)
    /\ IF gui.new_names = <<>>
       THEN UNCHANGED <<renamer, workers>>
       ELSE \E yes \in BOOLEAN :
              IF ~gui.dry_run_var /\ ~yes
              THEN UNCHANGED <<renamer, workers>>
              ELSE /\ gui.dry_run_var => yes
                   /\ renamer' = [renamer EXCEPT !.dry_run = gui.dry_run_var]
                   /\ \E w \in WorkerIds :
                         /\ workers[w].pc = "idle"
                         /\ \A v \in WorkerIds : v < w => workers[v].pc # "idle"
                         /\ workers' = [workers EXCEPT ![w].pc = "start",
                                                       ![w].dry_run0 = gui.dry_run_var,
                                                       ![w].backup0 = gui.backup_var]
    /\ UNCHANGED <<fs, backup, log_text, log_files, log_request, last>>

\* execute_rename_thread, lines 601-609: the worker reads the two lists
WorkerStart(w) ==
    /\ workers[w].pc = "start"
    /\ workers' = [workers EXCEPT ![w] =
          [pc |-> "loop", files |-> gui.files_to_process, names |-> gui.new_names,
           i |-> 1, total_files |-> Len(gui.files_to_process),
           success_count |-> 0, error_count |-> 0,
           dry_run0 |-> workers[w].dry_run0, backup0 |-> workers[w].backup0,
           previewed0 |-> gui.previewed_files]]
    /\ UNCHANGED <<fs, backup, renamer, gui, log_text, log_files, log_request, last>>

\* lines 609-641: one pair
WorkerStep(w) ==
    LET wk == workers[w]
    IN  /\ wk.pc = "loop"
        /\ wk.i <= Len(wk.files) /\ wk.i <= Len(wk.names)
        /\ \E fail \in {"none", "copy", "rename"} :
              LET out == gui_execute_pair(fs, backup, renamer, gui.backup_var,
                                          wk.files[wk.i], wk.names[wk.i], fail)
              IN  /\ fail # "none" => out.failed_at = fail
                  /\ fs' = out.fs
                  /\ backup' = out.backup
                  /\ workers' = [workers EXCEPT ![w].i = NextPair(@, out.kind, Len(wk.files)),
                                                ![w].success_count = @ + out.ok,
                                                ![w].error_count = @ + out.err]
                  /\ log_text' = log_text (+) SetToBag({out.line})
                  /\ last' = Seen(w, out.kind, out.failed_at, wk.files[wk.i],
                                  wk.names[wk.i], fs, backup, renamer, gui.backup_var,
                                  wk.error_count)
        /\ UNCHANGED <<renamer, gui, log_files, log_request>>

\* the selections of the log format box tried: no log, and one of the two
\* formats, which go through the same call at line 648
GuiLogFormats == {"none", "json"}

\* lines 643-659: statistics, the log file, the final message
WorkerFinish(w) ==
    LET wk == workers[w]
    IN  /\ wk.pc = "loop"
        /\ ~(wk.i <= Len(wk.files) /\ wk.i <= Len(wk.names))
        /\ gui' = [gui EXCEPT !.stats =
                      update_stats(wk.success_count, wk.error_count, wk.total_files)]
        /\ \E log_format \in GuiLogFormats :
              /\ log_request' = log_format
              /\ log_files' = IF log_format # "none"
                              THEN save_operations_log(log_files, renamer, log_format)
                              ELSE log_files
        /\ log_text' = log_text (+) SetToBag({
                          IF wk.error_count = 0
                          THEN Line("SUCCESS", "Operazione completata", <<>>)
                          ELSE Line("WARNING", "Operazione completata con errori", <<>>)})
        /\ workers' = [workers EXCEPT ![w].pc = "done"]
        /\ UNCHANGED <<fs, backup, renamer, last>>

\* a step of the graphical session
InGui(step) ==
    /\ program = "gui"
    /\ step
    /\ UNCHANGED <<program, calls, fs0, cliVars>>

Init == CliInit \/ CallInit \/ StrategyInit \/ GuiInit

Next ==
    \/ InCli(Validate)
    \/ InCli(CreateRenamer)
    \/ InCli(GetFiles)
    \/ InCli(Propose)
    \/ InCli(Preview)
    \/ InCli(Confirm)
    \/ InCli(CliExecStep)
    \/ InCli(CliExecReturn)
    \/ InCli(Finish)
    \/ InCli(KeyboardInterrupt)
    \/ InCall(CliExecStep)
    \/ InCall(CliExecReturn)
    \/ InCaller(CallAgain)
    \/ InStrategy(StrategyCall)
    \/ InGui(ScanFiles)
    \/ InGui(OnRenameTypeChange)
    \/ InGui(GeneratePreview)
    \/ InGui(ClearPreview)
    \/ InGui(ToggleDryRun)
    \/ InGui(ToggleBackup)
    \/ InGui(ExecuteRename)
    \/ \E w \in WorkerIds : InGui(WorkerStart(w))
    \/ \E w \in WorkerIds : InGui(WorkerStep(w))
    \/ \E w \in WorkerIds : InGui(WorkerFinish(w))

Spec == Init /\ [][Next]_vars

(***************************************************************************)
(* Properties of the rename executor.  last is what the most recent        *)
(* iteration of a rename loop saw before it acted; the directory, the      *)
(* backup copies and the operations log change in such iterations only.    *)
(***************************************************************************)

\* C1: a pair whose target path exists when the pair is processed, and is
\* not the file itself, is neither renamed nor copied: the directory and the
\* backup copies are after the iteration what they were before it, in the
\* command-line executor and in the worker of the graphical one, dry run or
\* not
C1_CollisionLeavesFilesystem ==
    (/\ last.kind # "none"
     /\ last.new_name = <<>> \/ last.new_name \in DOMAIN last.fs_before
     /\ last.new_name # last.original)
    => (fs = last.fs_before /\ backup = last.backup_before)

\* a worker with the backup option on, not a dry run, met a taken name
C1_Witness ==
    /\ program = "gui"
    /\ gui.backup_var
    /\ last.kind = "collision"
    /\ ~last.dry_run
    /\ last.new_name \in DOMAIN last.fs_before

\* C2: a pair skipped for a name collision gets an operation record of its
\* own, with success = false and the reason, appended to the operations log
\* before the next pair is processed
C2_CollisionRecorded ==
    (/\ last.kind # "none"
     /\ last.new_name = <<>> \/ last.new_name \in DOMAIN last.fs_before
     /\ last.new_name # last.original)
    => LET n == Len(last.log_before)
           log == renamer.operations_log
       IN  /\ Len(log) > n
           /\ log[n + 1].original = last.original
           /\ ~log[n + 1].success
           /\ "error" \in DOMAIN log[n + 1]

\* C3: with dry_run set no iteration touches the directory or the backup
\* copies, whatever the backup option is, and a call of execute_rename with
\* dry_run set ends with the directory it started with
C3_DryRunLeavesFilesystem ==
    /\ (last.kind # "none" /\ last.dry_run)
       => (fs = last.fs_before /\ backup = last.backup_before)
    /\ (program \in {"cli", "call"} /\ renamer.exists /\ renamer.dry_run)
       => (fs = fs0 /\ backup = <<>>)

\* a dry-run iteration of a worker with the backup option on, on a pair
\* that would have been renamed
C3_Witness ==
    /\ program = "gui"
    /\ gui.backup_var
    /\ last.kind = "dry_run"
    /\ last.new_name # last.original

\* C4: a dry-run execute over N pairs appends N operation records, one per
\* pair in plan order, each with success = true, whatever the plan and the
\* directory: every dry-run iteration appends the record of its pair, and
\* when the call returns the log holds the N records
C4_DryRunRecordsEveryPair ==
    /\ (last.kind # "none" /\ last.dry_run)
       => LET n == Len(last.log_before)
              log == renamer.operations_log
          IN  /\ Len(log) > n
              /\ log[n + 1].original = last.original
              /\ log[n + 1].success
    /\ (program \in {"cli", "call"} /\ pc = "report" /\ renamer.dry_run)
       => /\ Len(renamer.operations_log) = Len(files)
          /\ \A i \in 1..Len(files) :
                /\ renamer.operations_log[i].original = files[i]
                /\ renamer.operations_log[i].success

\* C5: execute_rename returns true exactly when every pair of the plan
\* produced a successful operation record in the call: false when a pair was
\* skipped for a collision or failed, true for the empty plan.  Stated for
\* the first call on a renamer, whose log holds the records of that call only.
C5_ReturnsTrueIffAllSucceeded ==
    (program \in {"cli", "call"} /\ pc = "report" /\ calls <= 1)
    => (success <=>
          /\ Len(renamer.operations_log) = Len(files)
          /\ \A i \in 1..Len(files) :
                /\ renamer.operations_log[i].original = files[i]
                /\ renamer.operations_log[i].success)

\* a call with two pairs, one renamed and one not, has returned false
C5_Witness ==
    /\ pc = "report"
    /\ Len(files) = 2
    /\ success_count = 1
    /\ ~success

\* C6: a filesystem error on one pair stays with that pair: the iteration
\* appends an operation record with success = false and the error message
\* for it, nothing that was in the directory before the iteration is undone,
\* and the loop stands at the pair that follows
C6_ErrorIsolatedAndRecorded ==
    last.kind = "error"
    => LET n == Len(last.log_before)
           log == renamer.operations_log
       IN  /\ Len(log) > n
           /\ log[n + 1].original = last.original
           /\ ~log[n + 1].success
           /\ "error" \in DOMAIN log[n + 1]
           /\ \A p \in DOMAIN last.fs_before :
                 p \in DOMAIN fs /\ fs[p] = last.fs_before[p]
           /\ last.who = 0 => (k > 1 /\ files[k - 1] = last.original)
           /\ last.who # 0 =>
                 LET wk == workers[last.who]
                 IN  wk.i > 1 /\ wk.files[wk.i - 1] = last.original

(***************************************************************************)
(* Properties of a run of the command-line program                         *)
(***************************************************************************)

\* C7: a plan whose proposed names are pairwise distinct and whose targets
\* do not exist before execution, executed not as a dry run and with no
\* rename refused by the operating system, renames every file: the call
\* returns true, the log holds one successful record per file in plan
\* order, no original path exists afterwards and every target path does,
\* with the content of its original.  The execution is the first one on the
\* directory.
C7_DistinctFreshNamesAllRenamed ==
    (/\ program \in {"cli", "call"}
     /\ pc = "report"
     /\ calls <= 1
     /\ ~renamer.dry_run
     /\ Len(new_names) = Len(files)
     /\ \A i, j \in 1..Len(files) : i # j => new_names[i] # new_names[j]
     /\ \A i \in 1..Len(files) :
           new_names[i] # <<>> /\ new_names[i] \notin DOMAIN fs0
     /\ \A i \in 1..Len(renamer.operations_log) :
           renamer.operations_log[i].success
           \/ renamer.operations_log[i].error # "OSError")
    => /\ success
       /\ Len(renamer.operations_log) = Len(files)
       /\ \A i \in 1..Len(files) :
             /\ renamer.operations_log[i].original = files[i]
             /\ renamer.operations_log[i].new = new_names[i]
             /\ renamer.operations_log[i].success
             /\ files[i] \notin DOMAIN fs
             /\ new_names[i] \in DOMAIN fs
             /\ fs[new_names[i]] = fs0[files[i]]

\* a.txt and b.txt, --sequential doc from 1: both renamed, true returned
C7_Witness ==
    /\ program = "cli"
    /\ pc = "report"
    /\ fs0 = FsOf({A_TXT, B_TXT})
    /\ args.sequential = DOC /\ args.start_number = 1
    /\ ~args.dry_run
    /\ DOMAIN fs = {DOC_001, DOC_002}
    /\ success
    /\ Len(renamer.operations_log) = 2

\* C8: in a run without --dry-run the executor is not entered and no file is
\* renamed unless the prompt, shown after the preview, was answered y, yes,
\* si or s in any letter case; any other answer ends the run at once with
\* exit code 0 and the directory untouched; with --dry-run no answer is
\* asked for and the executor follows the preview
C8_NoRenameWithoutConfirmation ==
    program = "cli" =>
      LET yes == {<<"y">>, <<"y", "e", "s">>, <<"s", "i">>, <<"s">>}
          shown == \E i \in 1..Len(printed) : printed[i] = "preview"
      IN  /\ (/\ ~args.dry_run
              /\ pc \in {"execute", "report"} \/ last.kind # "none" \/ fs # fs0)
             => (confirm # None /\ StrLower(confirm) \in yes /\ shown)
          /\ (confirm # None /\ StrLower(confirm) \notin yes)
             => (pc = "exited" /\ exit_code = 0 /\ fs = fs0 /\ last.kind = "none")
          /\ args.dry_run => confirm = None
          /\ (args.dry_run /\ shown /\ pc # "exited")
             => pc \in {"execute", "report"}

\* "Yes" was typed and a file has been renamed
C8_Witness ==
    /\ program = "cli"
    /\ confirm = <<"Y", "e", "s">>
    /\ last.kind = "renamed"
    /\ fs # fs0

\* C9: a run that meets a startup or validation error (the directory is not
\* there, --regex comes without --replacement, the regular expression does
\* not compile, the template names an unknown placeholder) exits with code 1
\* and has renamed nothing: no iteration of the executor ran before the
\* error, and none runs on such a command line
C9_ValidationErrorAborts ==
    program = "cli" =>
      LET untouched == fs = fs0 /\ last.kind = "none"
          no_replacement == /\ args.regex \notin {None, <<>>}
                            /\ args.replacement \in {None, <<>>}
          bad_regex == args.regex = <<"(">>
          bad_template == args.custom_pattern = T_BAD
      IN  /\ (pc = "exited" /\ no_replacement) => (exit_code = 1 /\ untouched)
          /\ (pc = "exited" /\ args.directory = "missing")
             => (exit_code = 1 /\ untouched)
          /\ (pc = "exited" /\ files # <<>> /\ (bad_regex \/ bad_template))
             => (exit_code = 1 /\ untouched)
          /\ raised.type \in {"FileNotFoundError", "ValueError", "KeyError", "IndexError"}
             => (pc = "exited" /\ exit_code = 1 /\ untouched)
          /\ (last.kind # "none" \/ fs # fs0)
             => (/\ ~no_replacement /\ ~bad_regex /\ ~bad_template
                 /\ args.directory = "work"
                 /\ Len(new_names) = Len(files))

\* the template "{foo}" on a directory with a matching file: KeyError, exit 1
C9_Witness ==
    /\ program = "cli"
    /\ args.custom_pattern = T_BAD
    /\ files # <<>>
    /\ raised.type = "KeyError"
    /\ exit_code = 1

\* C10: a run that has ended has exit code 0 when main came to its end, when
\* the user declined or when no file matched, and exit code 1 after the
\* --regex validation message, a keyboard interrupt or an exception; the
\* SystemExit of the two exit(0) calls leaves with its own code
C10_ExitCodes ==
    (program = "cli" /\ pc = "exited") =>
      LET validation == \E i \in 1..Len(printed) :
                            printed[i] = "regex_requires_replacement"
          declined == /\ confirm # None
                      /\ StrLower(confirm) \notin
                            {<<"y">>, <<"y", "e", "s">>, <<"s", "i">>, <<"s">>}
          no_files == renamer.exists /\ files = <<>>
      IN  /\ exit_code \in {0, 1}
          /\ raised.type = "SystemExit" => (declined \/ no_files)
          /\ (declined \/ no_files) /\ raised.type # "KeyboardInterrupt"
             => (raised.type = "SystemExit" /\ exit_code = 0)
          /\ (raised.type = "none" /\ ~validation) => exit_code = 0
          /\ (validation \/ raised.type \notin {"none", "SystemExit"})
             => exit_code = 1

\* the user answered "n": SystemExit with code 0 left main with exit code 0
C10_Witness ==
    /\ program = "cli"
    /\ pc = "exited"
    /\ confirm = <<"n">>
    /\ raised.type = "SystemExit"
    /\ exit_code = 0
(***************************************************************************)
(* Properties of the command line and of the graphical session            *)
(***************************************************************************)

\* the mode options present on the command line, whatever their value
C11_Given(a) ==
    {m \in {"sequential", "custom_pattern", "case", "regex"} :
        CASE m = "sequential" -> a.sequential # None
          [] m = "custom_pattern" -> a.custom_pattern # None
          [] m = "case" -> a.case # NoCase
          [] OTHER -> a.regex # None}

\* exactly one mode, and a replacement with --regex
C11_Acceptable(a) ==
    /\ Cardinality(C11_Given(a)) = 1
    /\ a.regex # None => a.replacement # None

\* the names of the strategy of the one option that is given
C11_Strategy(a, fileList, sizes, dates, times) ==
    IF a.sequential # None
    THEN rename_sequential(fileList, a.sequential, a.start_number)
    ELSE IF a.custom_pattern # None
    THEN rename_with_pattern(fileList, a.custom_pattern, sizes, dates, times)
    ELSE IF a.case # NoCase
    THEN rename_case_transform(fileList, a.case)
    ELSE apply_regex_replacement(fileList, a.regex, a.replacement)

\* C11: main rejects a command line exactly when it does not have one mode
\* option with, for --regex, a --replacement; and when main has proposed
\* names for an accepted command line, they are the names the strategy of
\* that option gives for the files found, also when the value of the option
\* is the empty string.
C11_ExactlyOneModeAccepted ==
    (program = "cli" /\ pc # "validate") =>
        /\ (pc = "exited" /\ printed = <<"regex_requires_replacement">>)
               <=> ~C11_Acceptable(args)
        /\ pc = "preview" =>
              \E run \in ClockRunsFor(args.custom_pattern, Len(files)) :
                 LET sizes == [i \in 1..Len(files) |-> fs[files[i]]]
                     res == C11_Strategy(args, files, sizes, DatesOf(run, Len(files)),
                                         TimesOf(run, Len(files)))
                 IN  res.ok /\ new_names = res.names

\* C12: in a graphical session at most one rename worker thread is alive at
\* any time: no click starts a second one while one is still processing.
C12_AtMostOneWorker ==
    program = "gui" =>
        Cardinality({w \in WorkerIds : workers[w].pc \in {"start", "loop"}}) <= 1

\* C13: a worker started with dry-run off processes every pair in the mode
\* (dry_run, backup) that was chosen when it was started, whatever the
\* interface thread does meanwhile.
C13_ModeFixedAtStart ==
    (program = "gui" /\ last.kind # "none" /\ ~workers[last.who].dry_run0) =>
        /\ last.dry_run = workers[last.who].dry_run0
        /\ last.backup_flag = workers[last.who].backup0

\* C14: when a worker has started, its list of proposed names has the length
\* of its file list and was computed by a preview over exactly that list.
C14_PlanMatchesFileList ==
    program = "gui" =>
        \A w \in WorkerIds :
            workers[w].pc = "loop" =>
                /\ Len(workers[w].names) = Len(workers[w].files)
                /\ workers[w].previewed0 = workers[w].files

\* C15: in a worker iteration with backup requested and dry-run off, a pair
\* that is not a collision has its original copied into the backup directory
\* before the rename is attempted (so the copy is there whether the rename
\* succeeded or failed); when the copy fails the file is not renamed and one
\* error is counted; a pair skipped as a collision gets no backup copy.
C15_BackupBeforeRename ==
    (program = "gui" /\ last.kind # "none" /\ last.backup_flag /\ ~last.dry_run) =>
        LET orig == last.original
            attempted == last.kind = "renamed" \/ last.failed_at = "rename"
        IN  /\ attempted =>
                /\ orig \in DOMAIN backup
                /\ backup[orig] = last.fs_before[orig]
            /\ last.kind = "renamed" =>
                /\ last.new_name \in DOMAIN fs
                /\ fs[last.new_name] = last.fs_before[orig]
            /\ last.failed_at = "copy" =>
                /\ backup = last.backup_before
                /\ \A n \in DOMAIN last.fs_before :
                      n \in DOMAIN fs /\ fs[n] = last.fs_before[n]
                /\ workers[last.who].error_count = last.errors_before + 1
            /\ last.kind = "collision" =>
                /\ backup = last.backup_before
                /\ fs = last.fs_before

\* a worker has renamed a file after copying it to the backup directory
C15_Witness ==
    /\ program = "gui"
    /\ last.kind = "renamed"
    /\ last.backup_flag
    /\ last.original \in DOMAIN backup
    /\ last.original \notin DOMAIN fs

\* C16: the Operation Record list is append-only: no step of a program (an
\* iteration or the return of execute_rename, a further execute call, the
\* end of main, a scan, a preview, a clearing of the preview, a worker step)
\* removes or changes a record that is already in the list; the list after
\* the step has the list before the step as a prefix.
C16_RecordsAppendOnly ==
    [][LET before == renamer.operations_log
           after == renamer'.operations_log
       IN  /\ Len(before) <= Len(after)
           /\ \A i \in 1..Len(before) : after[i] = before[i]]_vars

\* the second execute call on a renamer has added a record after the
\* records of the first call
C16_Witness ==
    /\ program = "call"
    /\ calls = 2
    /\ k = 2
    /\ last.log_before # <<>>
    /\ Len(renamer.operations_log) = Len(last.log_before) + 1

\* C17: a run that asked for a log format has written exactly one log file,
\* of that format, with one entry per pair the run attempted: the pairs of
\* the plan of main, or the pairs the worker of a GUI batch went through.
\* This includes the runs in which every pair was a collision.
C17_OneLogFilePerRun ==
    /\ (program = "cli" /\ pc = "exited" /\ raised = NoExc
            /\ log_request \notin {"unread", "None"}) =>
          /\ Len(log_files) = 1
          /\ log_files[1].format = log_request
          /\ Len(log_files[1].entries) = Len(files)
    /\ (program = "gui" /\ log_request \notin {"unread", "none"}) =>
          /\ log_files # <<>>
          /\ Len(log_files) <= Cardinality({w \in WorkerIds : workers[w].pc = "done"})
          /\ LET written == log_files[Len(log_files)]
             IN  /\ written.format = log_request
                 /\ \E w \in WorkerIds :
                       /\ workers[w].pc = "done"
                       /\ Len(written.entries) = workers[w].i - 1

(***************************************************************************)
(* Properties of the naming strategies                                     *)
(***************************************************************************)

\* C18: a naming method that returns, returns exactly as many names as the
\* list has files; the i-th name is derived from the i-th file: it is the
\* name the method gives at position i, for some run of the clock, whatever
\* the other files of the list are; and the list passed is as it was.  Lists
\* of length 0 are included.
C18_OneNamePerFile ==
    (program = "strategy" /\ pc = "returned" /\ raised = NoExc) =>
        LET n == Len(args.files)
        IN  /\ Len(new_names) = n
            /\ files = args.files
            /\ \A i \in 1..n : \A other \in StrategyFiles :
                  LET lst == [j \in 1..n |-> IF j = i THEN args.files[i] ELSE other]
                  IN  \E run \in ClockRunsOf(args, n) :
                         LET res == Apply(args, lst, SizesOf(lst), DatesOf(run, n),
                                          TimesOf(run, n))
                         IN  res.ok /\ res.names[i] = new_names[i]
            /\ \A i \in 1..n :
                  args.method \in {"rename_sequential", "rename_case_transform"} =>
                      Suffix(new_names[i]) = Suffix(args.files[i])

\* a method has returned the names of a list of two files with different
\* extensions
C18_Witness ==
    /\ program = "strategy"
    /\ pc = "returned"
    /\ raised = NoExc
    /\ Len(args.files) = 2
    /\ Len(new_names) = 2
    /\ Suffix(args.files[1]) # Suffix(args.files[2])

\* C19: rename_sequential gives, for the file at 0-based position i, the
\* base name, an underscore, start_num + i written with at least three
\* digits (zeros in front; the sign of a negative number counts as one of
\* the three characters) and the extension of that file; with start_num + d
\* in the place of start_num every number is larger by d and the rest of
\* the name is the same.
C19_SequentialFormula ==
    (program = "strategy" /\ pc = "returned" /\ args.method = "rename_sequential") =>
        LET digit(v) == DigitChar[v + 1]
            abs(v) == IF v < 0 THEN 0 - v ELSE v
            body(v) == IF v < 10 THEN <<digit(v)>>
                       ELSE IF v < 100 THEN <<digit(v \div 10), digit(v % 10)>>
                       ELSE IF v < 1000
                       THEN <<digit(v \div 100), digit((v \div 10) % 10), digit(v % 10)>>
                       ELSE <<digit(v \div 1000), digit((v \div 100) % 10),
                              digit((v \div 10) % 10), digit(v % 10)>>
            zeros(w) == [j \in 1..w |-> "0"]
            zeropad(v) == IF v < 0
                          THEN <<"-">> \o zeros(IF abs(v) < 10 THEN 1 ELSE 0) \o body(abs(v))
                          ELSE zeros(IF v < 10 THEN 2 ELSE IF v < 100 THEN 1 ELSE 0)
                               \o body(v)
            expected(i, d) == args.base_name \o <<"_">>
                              \o zeropad(args.start_num + d + (i - 1))
                              \o Suffix(args.files[i])
        IN  /\ raised = NoExc
            /\ Len(new_names) = Len(args.files)
            /\ \A i \in 1..Len(args.files) : new_names[i] = expected(i, 0)
            /\ \A d \in 0..2 :
                  LET shifted == rename_sequential(args.files, args.base_name,
                                                   args.start_num + d)
                  IN  /\ shifted.ok
                      /\ \A i \in 1..Len(args.files) : shifted.names[i] = expected(i, d)

\* rename_sequential has numbered two files across a change of the number
\* of digits
C19_Witness ==
    /\ program = "strategy"
    /\ pc = "returned"
    /\ args.method = "rename_sequential"
    /\ Len(new_names) = 2
    /\ Len(new_names[1]) < Len(new_names[2])
    /\ Suffix(args.files[1]) = Suffix(args.files[2])

\* C20 as stated: the camel transform gives back its own output: for the
\* stem s of a file, c = camel(s) without separator has camel(c) = c.
C20_CamelIdempotent ==
    (program = "strategy" /\ pc = "returned" /\ args.method = "rename_case_transform"
        /\ args.transform = "camel") =>
        \A i \in 1..Len(args.files) :
            LET c == CamelCase(Stem(args.files[i]))
            IN  /\ new_names[i] = c \o Suffix(args.files[i])
                /\ (\A j \in 1..Len(c) : ~IsSep(c[j])) => CamelCase(c) = c

\* C20, amended: for the stem s of a file, c = camel(s) has no separator and
\* camel(c) is c in lower case: c has one segment, which the transform
\* lower-cases as a whole.  So camel(c) = c exactly when c has no upper-case
\* letter, that is when no segment of s after the first begins with a
\* letter; and camel(camel(c)) = camel(c) for every s.
C20_CamelOfCamelIsLower ==
    (program = "strategy" /\ pc = "returned" /\ args.method = "rename_case_transform"
        /\ args.transform = "camel") =>
        \A i \in 1..Len(args.files) :
            LET c == CamelCase(Stem(args.files[i]))
                cc == CamelCase(c)
            IN  /\ new_names[i] = c \o Suffix(args.files[i])
                /\ \A j \in 1..Len(c) : ~IsSep(c[j])
                /\ Len(cc) = Len(c)
                /\ \A j \in 1..Len(c) :
                      cc[j] = IF IsUpperChar(c[j]) THEN Lowers[IndexIn(c[j], Uppers)]
                              ELSE c[j]
                /\ (cc = c) <=> (\A j \in 1..Len(c) : ~IsUpperChar(c[j]))
                /\ CamelCase(cc) = cc

\* the camel transform has returned a name with an upper-case letter for a
\* stem with a separator
C20_Witness ==
    /\ program = "strategy"
    /\ pc = "returned"
    /\ args.method = "rename_case_transform"
    /\ args.transform = "camel"
    /\ \E i \in 1..Len(new_names) :
          /\ \E j \in 1..Len(args.files[i]) : IsSep(args.files[i][j])
          /\ \E j \in 1..Len(new_names[i]) : IsUpperChar(new_names[i][j])

\* the camel form as described: the first segment in lower case, each later
\* segment with its first letter in upper case and the rest as it was
C21_Camel(s) ==
    LET words == ReSplit(s)
        later(w) == [j \in 1..Len(w) |-> IF j = 1 THEN UpperChar(w[j]) ELSE w[j]]
    IN  StrLower(words[1]) \o
        ConcatAll([j \in 1..(Len(words) - 1) |-> later(words[j + 1])])

\* C21: the camel transform gives, for each file, the stem split on runs of
\* "_", "-" and blanks, with the first segment in lower case, the first
\* letter of every later segment in upper case and the rest of that segment
\* as it was, the segments joined without separator; followed by the
\* extension of the file as it was.
C21_CamelKeepsRestOfSegment ==
    (program = "strategy" /\ pc = "returned" /\ args.method = "rename_case_transform"
        /\ args.transform = "camel") =>
        /\ raised = NoExc
        /\ Len(new_names) = Len(args.files)
        /\ \A i \in 1..Len(args.files) :
              new_names[i] = C21_Camel(Stem(args.files[i])) \o Suffix(args.files[i])

\* C22: the title transform gives, for each file, the stem in which a
\* character is in upper case when it is the first of the stem or follows a
\* "_", a "-" or a blank, and in lower case otherwise (so also after a digit
\* or a dot); followed by the extension of the file as it was.
C22_TitleWordsByDelimiter ==
    (program = "strategy" /\ pc = "returned" /\ args.method = "rename_case_transform"
        /\ args.transform = "title") =>
        /\ raised = NoExc
        /\ Len(new_names) = Len(args.files)
        /\ \A i \in 1..Len(args.files) :
              LET s == Stem(args.files[i])
                  titled == [j \in 1..Len(s) |->
                                IF j = 1 \/ IsSep(s[j - 1]) THEN UpperChar(s[j])
                                ELSE LowerChar(s[j])]
              IN  new_names[i] = titled \o Suffix(args.files[i])

\* C23: in one call of the templated strategy the date and the time are
\* read once: all the names of a call with the template "{date}_{time}"
\* carry the stamps of one and the same reading of the clock.
C23_OneStampPerCall ==
    (program = "strategy" /\ pc = "returned" /\ raised = NoExc
        /\ args.method = "rename_with_pattern" /\ args.pattern = T_STAMP) =>
        \E r \in Readings :
            \A i \in 1..Len(new_names) :
                new_names[i] = DateStamp(r) \o <<"_">> \o TimeStamp(r)

\* C24: the FileRenamer of main exists only for a path that is a directory:
\* for a missing path and for a path that is a regular file the constructor
\* raises the directory-not-found error, and it raises it for no other path;
\* the files get_files has returned are regular files of the directory, and
\* the directory is as it was at start until the executor runs.
C24_RootMustBeDirectory ==
    program = "cli" =>
        /\ renamer.exists => args.directory = "work"
        /\ (raised.type = "FileNotFoundError" /\ ~renamer.exists)
               => args.directory # "work"
        /\ pc \in {"propose", "preview", "confirm"} =>
              /\ fs = fs0
              /\ \A i \in 1..Len(files) :
                    files[i] \in DOMAIN fs /\ fs[files[i]] # DirEntry

\* the number of regular files with content c among the entries of f
C25_Copies(f, c) == Cardinality({n \in DOMAIN f : f[n] = c})

\* the workers now between their start and their last pair
C25_Running == {w \in WorkerIds : workers[w].pc \in {"start", "loop"}}

\* C25 as stated: with a single executor, after any sequence of execute
\* calls the number of files is what it was, and every content is found
\* under exactly as many paths as at start, the copies kept in the backup
\* directory being files like the others.
C25_NoFileOverwrittenOrLost ==
    (program \in {"cli", "call", "gui"} /\ Cardinality(C25_Running) <= 1) =>
        \A c \in 1..5 :
            C25_Copies(fs, c) + C25_Copies(backup, c) = C25_Copies(fs0, c)

\* C25, amended: with a single executor, after any sequence of execute
\* calls the directory holds as many regular files as at start and every
\* content that was in it is still in it under as many names as at start,
\* the copies the GUI keeps in its backup directory not counted; the
\* sub-directories it had are still there.
C25_DirectoryFilesKept ==
    (program \in {"cli", "call", "gui"} /\ Cardinality(C25_Running) <= 1) =>
        /\ \A c \in 1..5 : C25_Copies(fs, c) = C25_Copies(fs0, c)
        /\ Cardinality({n \in DOMAIN fs : IsFile(fs, n)})
              = Cardinality({n \in DOMAIN fs0 : IsFile(fs0, n)})
        /\ \A n \in DOMAIN fs0 : fs0[n] = DirEntry => (n \in DOMAIN fs /\ fs[n] = DirEntry)

\* a second call on the same plan has just refused a pair whose proposed
\* name is the name of a file that is there, after files were renamed
C25_Witness ==
    /\ program = "call" /\ calls = 2
    /\ fs # fs0
    /\ last.kind = "collision"
    /\ last.new_name \in DOMAIN last.fs_before
    /\ last.new_name # last.original

\* C26: when the only batch of a session has ended, over T pairs of which S
\* succeeded (renamed or simulated) and E failed (collision or exception),
\* the statistics shown are processed = T, successes = S, errors = E, with
\* S + E = T and the shown success count not negative.
C26_StatsShowCounts ==
    (/\ program = "gui"
     /\ workers[1].pc = "done"
     /\ \A w \in WorkerIds \ {1} : workers[w].pc = "idle") =>
        LET T == workers[1].i - 1
            S == workers[1].success_count
            E == workers[1].error_count
        IN  /\ S + E = T
            /\ gui.stats = [processed |-> T, success |-> S, errors |-> E]
            /\ gui.stats.success >= 0

RECURSIVE C27_RealRun(_, _)
\* the pairs, from pair i on, that execute_rename with dry-run off renames
\* when it reaches pair i with the directory being f and the operating
\* system refuses nothing
C27_RealRun(f, i) ==
    IF i > Len(files) THEN {}
    ELSE LET out == execute_pair(f, [renamer EXCEPT !.dry_run = FALSE],
                                 files[i], new_names[i], FALSE)
         IN  (IF out.kind = "renamed" THEN {i} ELSE {}) \cup C27_RealRun(out.fs, i + 1)

\* C27: when a dry-run execute_rename has returned, the pairs it recorded as
\* successful are exactly the pairs the same call with dry-run off renames
\* from the same initial directory, and the value it returned is the value
\* that call returns.
C27_DryRunPredictsRealRun ==
    (program = "call" /\ calls = 1 /\ pc = "report" /\ renamer.dry_run) =>
        LET log == renamer.operations_log
            dry == {i \in 1..Len(files) :
                       \E j \in 1..Len(log) :
                           log[j].success /\ log[j].original = files[i]}
            real == C27_RealRun(fs0, 1)
        IN  /\ dry = real
            /\ success = ReturnValue(Cardinality(real), files)

\* C28: in the second of two execute_rename calls on the same plan with
\* dry-run off, the operating system having refused no rename of a file
\* that was there, no file is given another name: every pair of the second
\* call leaves the directory as the first call left it.
C28_SecondExecuteChangesNothing ==
    (/\ program = "call" /\ calls = 2 /\ ~renamer.dry_run
     /\ last.kind # "none" /\ k > 1
     /\ \A j \in 1..Len(renamer.operations_log) :
           ~renamer.operations_log[j].success
              => renamer.operations_log[j].error = "FileNotFoundError") =>
        /\ last.kind = "renamed" => last.new_name = last.original
        /\ fs = last.fs_before

\* C29: every generate_preview on a non-empty file list either computes the
\* names with the selected strategy from that strategy's fields, stores
\* them and enables the Execute button, or fails on what the fields hold and
\* leaves the stored plan and the button as they were; it never fails
\* because the selected strategy's fields are not there.
C29_PreviewUsesSelectedStrategy ==
    [][(program = "gui" /\ GeneratePreview) =>
          LET fl == gui.files_to_process
              sizes == [i \in 1..Len(fl) |-> IF fl[i] \in DOMAIN fs THEN fs[fl[i]] ELSE 0]
          IN  /\ gui'.preview_error # "AttributeError"
              /\ gui'.preview_error = "none" =>
                    /\ gui'.execute_button = "normal"
                    /\ \E o \in GuiOptions :
                       \E run \in ClockRunsFor(IF o.rename_type = "pattern"
                                               THEN o.custom_pattern ELSE None, Len(fl)) :
                          /\ o.rename_type = gui.rename_type
                          /\ gui'.new_names =
                                GuiProposeNames(o, fl, sizes, DatesOf(run, Len(fl)),
                                                TimesOf(run, Len(fl))).names
              /\ gui'.preview_error # "none" =>
                    /\ gui'.new_names = gui.new_names
                    /\ gui'.execute_button = gui.execute_button
      ]_vars

====
